---- MODULE Spec2Model ----
(***************************************************************************)
(* Model of src/decoder/serde.rs: the serde front end of the TOML decoder. *)
(* A Decoder holds at most one pending Value; Decoder::visit dispatches it *)
(* on its tag, handing arrays to a SeqDeserializer and tables to a         *)
(* MapVisitor.  The consumer (serde Visitor / Deserialize implementations) *)
(* is the environment: it chooses which operation to call next and what    *)
(* its own conversions answer.  Nested conversions run on a stack of       *)
(* Decoder frames, one per Decoder::new.                                   *)
(***************************************************************************)
EXTENDS Integers, Sequences, FiniteSets, TLC

VARIABLES stack, ret, status

vars == <<stack, ret, status>>

----------------------------------------------------------------------------
(* Bounds of the input universe *)

\* largest number of nodes (primitives, arrays, tables) of the root Value
MaxNodes == 3

\* the key strings in use, in the lexicographic order a BTreeMap iterates them
KeyNames == <<"a", "b">>

Keys == {KeyNames[i] : i \in 1..Len(KeyNames)}

\* the field name the consumer asks missing_field about; the errors the
\* consumer builds itself name the other key
FieldNames == {KeyNames[2]}

----------------------------------------------------------------------------
(* Option<T>: None is the empty sequence, Some(x) the one-element sequence *)

None == <<>>

Some(x) == <<x>>

IsSome(o) == Len(o) = 1

IsNone(o) == Len(o) = 0

Unwrap(o) == o[1]

\* Option::or
OptOr(o, d) == IF IsSome(o) THEN o ELSE d

----------------------------------------------------------------------------
(* Value: the TOML tree.  Every Value is a record of the same four fields  *)
(* so that any two Values can be compared; a Table is its entries in key   *)
(* order, as BTreeMap::into_iter yields them.                              *)

Prim(t, x) == [tag |-> t, prim |-> x, arr |-> <<>>, tab |-> <<>>]

ArrayV(a) == [tag |-> "Array", prim |-> 0, arr |-> a, tab |-> <<>>]

TableV(t) == [tag |-> "Table", prim |-> 0, arr |-> <<>>, tab |-> t]

PrimTags == {"String", "Integer", "Float", "Boolean", "Datetime"}

\* primitives met inside arrays and tables, and at the root
NestedLeaves == {Prim("Integer", 1)}

RootLeaves == {Prim(t, 1) : t \in PrimTags}

RECURSIVE ValuesOfSize(_), ArraysOfTotal(_), EntriesOfTotal(_, _)

\* all Values of exactly n nodes
ValuesOfSize(n) ==
    (IF n = 1 THEN NestedLeaves ELSE {})
    \cup {ArrayV(a) : a \in ArraysOfTotal(n - 1)}
    \cup {TableV(t) : t \in EntriesOfTotal(n - 1, 1)}

\* all sequences of Values of m nodes in total
ArraysOfTotal(m) ==
    IF m = 0 THEN {<<>>}
    ELSE UNION {{<<v>> \o s : v \in ValuesOfSize(j), s \in ArraysOfTotal(m - j)}
                : j \in 1..m}

\* all key-ordered entry lists of m nodes in total, over the keys from lo on
EntriesOfTotal(m, lo) ==
    IF m = 0 THEN {<<>>}
    ELSE UNION {{<<(<<KeyNames[p[1]], v>>)>> \o s :
                    v \in ValuesOfSize(p[2]),
                    s \in EntriesOfTotal(m - p[2], p[1] + 1)}
                : p \in (lo..Len(KeyNames)) \X (1..m)}

Roots == RootLeaves \cup UNION {ValuesOfSize(n) : n \in 1..MaxNodes}

\* the keys of a list of entries
EntryKeys(t) == {t[i][1] : i \in 1..Len(t)}

KeyIdx(k) == CHOOSE i \in 1..Len(KeyNames) : KeyNames[i] = k

\* BTreeMap lookup in a list of entries
Lookup(t, k) ==
    IF k \in EntryKeys(t)
    THEN Some(t[CHOOSE i \in 1..Len(t) : t[i][1] = k][2])
    ELSE None

\* BTreeMap::insert: replace the entry of an existing key, else insert in key order
TableInsert(t, k, v) ==
    LET lower == SelectSeq(t, LAMBDA e : KeyIdx(e[1]) < KeyIdx(k))
        upper == SelectSeq(t, LAMBDA e : KeyIdx(e[1]) > KeyIdx(k))
    IN lower \o <<(<<k, v>>)>> \o upper

----------------------------------------------------------------------------
(* DecodeError {field, kind}; ty is the tag of ExpectedField(Option<&str>) *)

Err(k, ty, f) == [kind |-> k, ty |-> ty, field |-> f]

NoErr == Err("none", None, None)

ErrorKinds == {"SyntaxError", "EndOfStream", "ExpectedField", "UnknownField"}

\* impl de::Error for DecodeError
syntax_error == Err("SyntaxError", None, None)

end_of_stream_error == Err("EndOfStream", None, None)

missing_field_error(name) == Err("ExpectedField", None, Some(name))

unknown_field_error(name) == Err("UnknownField", None, Some(name))

\* de::value::Error, the four signals a Visitor answers a primitive with
Sig(s, n) == [sig |-> s, name |-> n]

Signals ==
    {Sig("SyntaxError", ""), Sig("EndOfStreamError", ""),
     Sig("MissingFieldError", KeyNames[1]), Sig("UnknownFieldError", KeyNames[1])}

\* a Visitor's answers to a primitive: accepted, or one of the signals
OkSig == Sig("Ok", "")

Answers == {OkSig} \cup Signals

se2toml(err, ty) ==
    CASE err.sig = "SyntaxError" -> syntax_error
      [] err.sig = "EndOfStreamError" -> end_of_stream_error
      [] err.sig = "MissingFieldError" ->
            Err("ExpectedField", Some(ty), Some(err.name))
      [] err.sig = "UnknownFieldError" ->
            Err("UnknownField", None, Some(err.name))

\* the errors a consumer builds itself.  Deserialize and Visitor code is
\* generic in the error type, so it has only the four constructors of
\* de::Error to build one with
ConsumerErrs ==
    {syntax_error, end_of_stream_error, missing_field_error(KeyNames[1]),
     unknown_field_error(KeyNames[1])}

----------------------------------------------------------------------------
(* Frames.  One frame per live Decoder, with the cursor its dispatch has   *)
(* handed to the consumer, if any.  Fields after "call" are history kept   *)
(* for the properties, not program state.                                  *)

NewDecoder(v) ==
    [toml  |-> Some(v),   \* Decoder.toml
     cur   |-> "none",    \* cursor in use: "none", "seq" or "map"
     iter  |-> <<>>,      \* SeqDeserializer.iter: elements not yet pulled
     len   |-> 0,         \* SeqDeserializer.len
     ents  |-> <<>>,      \* MapVisitor.iter: entries not yet pulled
     key   |-> None,      \* MapVisitor.key
     value |-> None,      \* MapVisitor.value
     call  |-> "none",    \* operation waiting for a nested deserialize
     init  |-> v,         \* the Value this Decoder was built over
     src   |-> None,      \* the Value the last dispatch took
     nOk   |-> 0,         \* next_element calls that returned an element
     nPull |-> 0,         \* next_element calls that pulled an element
     rsds  |-> <<>>,      \* residues left by the elements, in order
     clean |-> TRUE,      \* no next_element call has failed
     vkey  |-> None,      \* key of the entry whose value is in .value
     deliv |-> <<>>,      \* entries whose value next_value converted
     nKey  |-> 0,         \* next_key calls that returned a key
     pulled |-> <<>>,     \* keys of the entries pulled from MapVisitor.iter
     proto |-> TRUE,      \* keys and values alternated, nothing failed,
                          \* every converted value was fully consumed
     unk   |-> FALSE,     \* some key conversion answered UnknownField
     dep   |-> FALSE]     \* the cursor deposited residue in .toml

Top == stack[Len(stack)]

SetTop(f) == [stack EXCEPT ![Len(stack)] = f]

BaseRet ==
    [op |-> "new", ok |-> TRUE, err |-> NoErr, some |-> FALSE,
     key |-> None, took |-> None, rsd |-> None, pre |-> None,
     outs |-> <<>>, name |-> "", cb |-> "", lo |-> 0, hi |-> None,
     req |-> "", sig |-> OkSig]

RetOk(op) == [BaseRet EXCEPT !.op = op]

RetErr(op, e) == [BaseRet EXCEPT !.op = op, !.ok = FALSE, !.err = e]

\* try! that attributes the error to the key the frame knows
TryErrWithKey(e, key) == [e EXCEPT !.field = key]

\* try!(de::Deserialize::deserialize(&mut de)) in SeqVisitor::visit and
\* MapVisitor::visit_value: the nested error e is returned as it is; key is
\* what the frame knows about the entry (None in a sequence)
TryErr(e, key) == e

----------------------------------------------------------------------------
(* Decoder *)

\* every primitive arm passing the tag of the String arm
TypeTagOfStringArm(tag) == "string"

\* the type tag each primitive arm of Decoder::visit passes to se2toml
TypeTag(tag) ==
    CASE tag = "String" -> "string"
      [] tag = "Integer" -> "integer"
      [] tag = "Float" -> "float"
      [] tag = "Boolean" -> "bool"
      [] tag = "Datetime" -> "date"

\* self.toml read without being moved out
SlotNotTaken(slot) == slot

\* self.toml.take(): the slot after the Value was moved out
SlotAfterTake(slot) == None

\* an empty slot offered as if it held a value
VisitEmptyAccepted == RetOk("visit")

\* the None arm of Decoder::visit
VisitEmptyResult == RetErr("visit", end_of_stream_error)

\* Decoder::visit on frame f; oc is the consumer's answer to a primitive,
\* one of Answers.  Yields the frame and the result.
VisitDispatch(f, oc) ==
    LET slot == f.toml
        g == [f EXCEPT !.toml = SlotAfterTake(slot)]
    IN IF IsNone(slot)
       THEN [f |-> g, ret |-> [VisitEmptyResult EXCEPT !.took = None]]
       ELSE LET v == Unwrap(slot)
                h == [g EXCEPT !.src = Some(v), !.nOk = 0, !.nPull = 0,
                               !.rsds = <<>>, !.clean = TRUE,
                               !.vkey = None, !.deliv = <<>>, !.nKey = 0, !.pulled = <<>>,
                               !.proto = TRUE,
                               !.unk = FALSE, !.dep = FALSE]
            IN CASE v.tag \in PrimTags ->
                      [f |-> h,
                       ret |-> IF oc = OkSig
                               THEN [RetOk("visit") EXCEPT !.took = slot]
                               ELSE [RetErr("visit", se2toml(oc, TypeTag(v.tag)))
                                       EXCEPT !.took = slot, !.sig = oc]]
                 [] v.tag = "Array" ->
                      [f |-> [h EXCEPT !.cur = "seq", !.iter = v.arr,
                                       !.len = Len(v.arr)],
                       ret |-> [RetOk("visit_seq") EXCEPT !.took = slot]]
                 [] v.tag = "Table" ->
                      [f |-> [h EXCEPT !.cur = "map", !.ents = v.tab,
                                       !.key = None, !.value = None],
                       ret |-> [RetOk("visit_map") EXCEPT !.took = slot]]

Idle(f) == f.cur = "none" /\ f.call = "none"

\* the consumer's possible answers to what Decoder::visit offers for slot:
\* a primitive is answered at once; an Array or a Table hands out a cursor,
\* and the empty slot fails before the consumer is called
OfferAnswers(slot) ==
    IF IsSome(slot) /\ Unwrap(slot).tag \in PrimTags THEN Answers ELSE {OkSig}

\* Decoder::visit
DecoderVisit ==
    /\ status = "running"
    /\ Idle(Top)
    /\ \E oc \in OfferAnswers(Top.toml) :
         LET r == VisitDispatch(Top, oc)
         IN /\ stack' = SetTop(r.f)
            /\ ret' = [r.ret EXCEPT !.req = "visit", !.pre = Some(Top)]
    /\ UNCHANGED status

\* Decoder::visit_option
DecoderVisitOption ==
    /\ status = "running"
    /\ Idle(Top)
    /\ IF IsNone(Top.toml)
       THEN \E e \in {NoErr, syntax_error} :
              ret' = [(IF e = NoErr THEN RetOk("visit_none")
                       ELSE RetErr("visit_none", e))
                        EXCEPT !.req = "visit_option", !.pre = Some(Top)]
       ELSE ret' = [RetOk("visit_some") EXCEPT !.some = TRUE,
                                               !.req = "visit_option",
                                               !.pre = Some(Top)]
    /\ UNCHANGED <<stack, status>>

\* visit_seq without the test of the slot: every request is dispatched
SeqShortcutNever(slot) == FALSE

\* the test of Decoder::visit_seq that offers an empty sequence
SeqShortcut(slot) == IsNone(slot)

\* Decoder::visit_seq; on an empty slot the consumer is offered
\* de::value::SeqDeserializer::new(iter, 0) over an empty iterator
DecoderVisitSeq ==
    /\ status = "running"
    /\ Idle(Top)
    /\ IF SeqShortcut(Top.toml)
       THEN /\ \E oc \in Answers :
                 ret' = [(IF oc = OkSig
                          THEN RetOk("visit_empty_seq")
                          ELSE RetErr("visit_empty_seq", se2toml(oc, "array")))
                           EXCEPT !.lo = 0, !.hi = Some(0), !.sig = oc,
                                  !.req = "visit_seq", !.pre = Some(Top)]
            /\ UNCHANGED stack
       ELSE \E oc \in OfferAnswers(Top.toml) :
              LET r == VisitDispatch(Top, oc)
              IN /\ stack' = SetTop(r.f)
                 /\ ret' = [r.ret EXCEPT !.req = "visit_seq", !.pre = Some(Top)]
    /\ UNCHANGED status

\* the errors the consumer may return: its own (one without and one with a
\* field), or the one it was just given
ReturnErrs ==
    {syntax_error, unknown_field_error(KeyNames[1])}
    \cup (IF ret.ok THEN {} ELSE {ret.err})

\* visitor.visit_seq / visitor.visit_map returns: the cursor is dropped and
\* Decoder::visit returns the consumer's result
CursorReturn ==
    /\ status = "running"
    /\ Top.cur # "none"
    /\ Top.call = "none"
    /\ \E e \in {NoErr} \cup ReturnErrs :
         ret' = IF e = NoErr THEN [RetOk("visit") EXCEPT !.took = Top.src]
                ELSE [RetErr("visit", e) EXCEPT !.took = Top.src,
                                                !.outs = <<e>>]
    /\ stack' = SetTop([Top EXCEPT !.cur = "none", !.iter = <<>>, !.len = 0,
                                   !.ents = <<>>, !.key = None, !.value = None,
                                   !.vkey = None, !.nKey = 0, !.pulled = <<>>,
                                   !.nPull = 0, !.rsds = <<>>])
    /\ UNCHANGED status

----------------------------------------------------------------------------
(* SeqDeserializer *)

\* put_value_back that starts a new residual Array every time
SeqPutValueBackFresh(f, v) ==
    [panic |-> FALSE, f |-> [f EXCEPT !.toml = Some(ArrayV(<<v>>)), !.dep = TRUE]]

\* SeqDeserializer::put_value_back of residue v on frame f; panic is the
\* unreachable!() arm
SeqPutValueBack(f, v) ==
    LET s == OptOr(f.toml, Some(ArrayV(<<>>)))
    IN IF Unwrap(s).tag # "Array"
       THEN [panic |-> TRUE, f |-> [f EXCEPT !.toml = s]]
       ELSE [panic |-> FALSE,
             f |-> [f EXCEPT !.toml = Some(ArrayV(Append(Unwrap(s).arr, v))),
                             !.dep = TRUE]]

\* the remaining count left as it was when an element is pulled
LenNotCounted(len) == len

\* self.len -= 1 (usize: the subtraction overflows below zero)
LenAfterPull(len) == len - 1

\* SeqVisitor::visit (next_element), up to the nested deserialize
SeqVisit ==
    /\ status = "running"
    /\ Top.cur = "seq"
    /\ Top.call = "none"
    /\ IF Top.iter = <<>>
       THEN /\ ret' = [RetOk("seq_visit") EXCEPT !.pre = Some(Top)]
            /\ UNCHANGED stack
       ELSE /\ stack' = Append(SetTop([Top EXCEPT !.iter = Tail(@),
                                                   !.len = LenAfterPull(@),
                                                   !.nPull = @ + 1,
                                                   !.call = "seq_visit"]),
                               NewDecoder(Head(Top.iter)))
            /\ ret' = RetOk("seq_pull")
    /\ UNCHANGED status

\* SeqVisitor::end without the check of the remaining count
SeqEndUnchecked(len) == RetOk("seq_end")

\* the result of SeqVisitor::end
SeqEndResult(len) ==
    IF len = 0 THEN RetOk("seq_end") ELSE RetErr("seq_end", end_of_stream_error)

\* SeqVisitor::end (finish)
SeqEnd ==
    /\ status = "running"
    /\ Top.cur = "seq"
    /\ Top.call = "none"
    /\ ret' = SeqEndResult(Top.len)
    /\ UNCHANGED <<stack, status>>

\* SeqVisitor::size_hint
SeqSizeHint ==
    /\ status = "running"
    /\ Top.cur = "seq"
    /\ Top.call = "none"
    /\ ret' = [RetOk("size_hint") EXCEPT !.lo = Top.len, !.hi = Some(Top.len)]
    /\ UNCHANGED <<stack, status>>

\* SeqVisitor::visit after the nested deserialize returned e (NoErr: Ok)
\* with child the nested Decoder
SeqVisitResume(f, child, e) ==
    LET g == [f EXCEPT !.call = "none"]
    IN IF e # NoErr
       THEN [panic |-> FALSE, f |-> [g EXCEPT !.clean = FALSE],
             ret |-> [RetErr("seq_visit", TryErr(e, None))
                        EXCEPT !.pre = Some(f), !.outs = <<e>>]]
       ELSE LET h == [g EXCEPT !.nOk = @ + 1,
                               !.rsds = IF IsSome(child.toml)
                                        THEN Append(@, Unwrap(child.toml))
                                        ELSE @]
                p == IF IsSome(child.toml)
                     THEN SeqPutValueBack(h, Unwrap(child.toml))
                     ELSE [panic |-> FALSE, f |-> h]
            IN [panic |-> p.panic, f |-> p.f,
                ret |-> [RetOk("seq_visit") EXCEPT !.some = TRUE,
                                                   !.rsd = child.toml,
                                                   !.pre = Some(f)]]

----------------------------------------------------------------------------
(* MapVisitor *)

\* put_value_back without the or_else that creates the residual Table: the
\* value is lost when the slot is empty
MapPutValueBackNoCreate(f, v) ==
    IF IsNone(f.key)
    THEN [panic |-> TRUE, f |-> f]
    ELSE [panic |-> FALSE,
          f |-> [f EXCEPT !.toml = IF IsSome(f.toml)
                                   THEN Some(TableV(TableInsert(Unwrap(f.toml).tab,
                                                                Unwrap(f.key), v)))
                                   ELSE None,
                          !.key = None,
                          !.dep = IsSome(f.toml)]]

\* MapVisitor::put_value_back of v on frame f; panic is key.take().unwrap()
\* on an empty key, or the unreachable!() arm
MapPutValueBack(f, v) ==
    LET s == OptOr(f.toml, Some(TableV(<<>>)))
    IN IF Unwrap(s).tag # "Table" \/ IsNone(f.key)
       THEN [panic |-> TRUE, f |-> [f EXCEPT !.toml = s]]
       ELSE [panic |-> FALSE,
             f |-> [f EXCEPT !.toml = Some(TableV(TableInsert(Unwrap(s).tab,
                                                              Unwrap(f.key), v))),
                             !.key = None,
                             !.dep = TRUE]]

\* visit_key that takes an UnknownField answer for a match
KeyArmUnknownMatches(out) ==
    IF out = NoErr \/ out.kind = "UnknownField" THEN "match" ELSE "fail"

\* visit_key that also collects the entry on a SyntaxError
KeyArmLenient(out) ==
    IF out = NoErr THEN "match"
    ELSE IF out.kind \in {"UnknownField", "SyntaxError"} THEN "putback"
    ELSE "fail"

\* visit_key without the UnknownField arm: every failure is returned
KeyArmStrict(out) == IF out = NoErr THEN "match" ELSE "fail"

\* the arm of the match in visit_key that the key conversion's result takes
KeyArm(out) ==
    IF out = NoErr THEN "match"
    ELSE IF out.kind = "UnknownField" THEN "putback"
    ELSE "fail"

RECURSIVE VisitKeyLoop(_, _)

\* the while loop of MapVisitor::visit_key on frame f; outs are the results
\* of the consumer's key conversions, one per entry pulled (NoErr: Ok)
VisitKeyLoop(f, outs) ==
    IF f.ents = <<>>
    THEN [panic |-> FALSE, f |-> f, ret |-> RetOk("visit_key")]
    ELSE LET k == Head(f.ents)[1]
             v == Head(f.ents)[2]
             g == [f EXCEPT !.ents = Tail(@), !.key = Some(k),
                            !.pulled = Append(@, k)]
             out == Head(outs)
         IN CASE KeyArm(out) = "match" ->
                   [panic |-> FALSE,
                    f |-> [g EXCEPT !.value = Some(v), !.vkey = Some(k),
                                    !.nKey = @ + 1],
                    ret |-> [RetOk("visit_key") EXCEPT !.some = TRUE,
                                                       !.key = Some(k)]]
              [] KeyArm(out) = "putback" ->
                   LET p == MapPutValueBack(g, v)
                   IN IF p.panic
                      THEN [panic |-> TRUE, f |-> p.f, ret |-> RetOk("visit_key")]
                      ELSE VisitKeyLoop([p.f EXCEPT !.unk = TRUE], Tail(outs))
              [] KeyArm(out) = "fail" ->
                   [panic |-> FALSE, f |-> [g EXCEPT !.proto = FALSE],
                    ret |-> RetErr("visit_key", out)]

\* what the consumer's key conversion may fail with, other than UnknownField
KeyFailures ==
    {syntax_error, end_of_stream_error,
     se2toml(Sig("MissingFieldError", KeyNames[1]), "string")}

\* the consumer's answers to the keys of ents: UnknownField for the first n,
\* then fin
KeyOutcomes(ents, n, fin) ==
    [i \in 1..Len(ents) |->
        IF i <= n THEN unknown_field_error(ents[i][1]) ELSE fin]

\* MapVisitor::visit_key (next_key)
VisitKey ==
    /\ status = "running"
    /\ Top.cur = "map"
    /\ Top.call = "none"
    /\ \E n \in 0..Len(Top.ents), fin \in {NoErr} \cup KeyFailures :
         /\ n = Len(Top.ents) => fin = NoErr
         /\ LET outs == KeyOutcomes(Top.ents, n, fin)
                r == VisitKeyLoop([Top EXCEPT !.proto = @ /\ IsNone(Top.value)],
                                  outs)
            IN /\ stack' = SetTop(r.f)
               /\ ret' = [r.ret EXCEPT !.outs = outs, !.pre = Some(Top)]
               /\ status' = IF r.panic THEN "panic" ELSE status

\* self.value read without being moved out
ValueNotTaken(value) == value

\* self.value.take(): the pending value after visit_value moved it out
ValueAfterTake(value) == None

\* MapVisitor::visit_value (next_value), up to the nested deserialize
VisitValue ==
    /\ status = "running"
    /\ Top.cur = "map"
    /\ Top.call = "none"
    /\ IF IsNone(Top.value)
       THEN /\ ret' = [RetErr("visit_value", end_of_stream_error)
                        EXCEPT !.pre = Some(Top)]
            /\ stack' = SetTop([Top EXCEPT !.proto = FALSE])
       ELSE /\ stack' = Append(SetTop([Top EXCEPT !.value = ValueAfterTake(@),
                                                   !.call = "map_value"]),
                               NewDecoder(Unwrap(Top.value)))
            /\ ret' = RetOk("value_pull")
    /\ UNCHANGED status

\* MapVisitor::visit_value after the nested deserialize returned e (NoErr:
\* Ok) with child the nested Decoder
MapValueResume(f, child, e) ==
    LET g == [f EXCEPT !.call = "none", !.vkey = None]
        before == [f EXCEPT !.call = "none", !.value = Some(child.init)]
    IN IF e # NoErr
       THEN [panic |-> FALSE, f |-> [g EXCEPT !.proto = FALSE],
             ret |-> [RetErr("visit_value", TryErr(e, f.vkey))
                        EXCEPT !.key = f.vkey, !.pre = Some(before),
                               !.outs = <<e>>]]
       ELSE LET h == [g EXCEPT !.deliv = Append(@, <<Unwrap(f.vkey), child.init>>),
                               !.proto = @ /\ IsNone(child.toml)]
                p == IF IsSome(child.toml)
                     THEN MapPutValueBack(h, Unwrap(child.toml))
                     ELSE [panic |-> FALSE, f |-> h]
            IN [panic |-> p.panic, f |-> p.f,
                ret |-> [RetOk("visit_value") EXCEPT !.key = f.vkey,
                                                     !.rsd = child.toml,
                                                     !.pre = Some(before)]]

\* MapVisitor::end as strict as SeqVisitor::end
MapEndStrict(f) ==
    IF f.ents = <<>> /\ IsNone(f.value)
    THEN RetOk("map_end")
    ELSE RetErr("map_end", end_of_stream_error)

\* the result of MapVisitor::end on frame f
MapEndResult(f) == RetOk("map_end")

\* MapVisitor::end (finish)
MapEnd ==
    /\ status = "running"
    /\ Top.cur = "map"
    /\ Top.call = "none"
    /\ ret' = [MapEndResult(Top) EXCEPT !.pre = Some(Top)]
    /\ UNCHANGED <<stack, status>>

\* UnitDeserializer: visit offers visit_unit, visit_option offers visit_none
UnitDeserializer(entry) ==
    IF entry = "visit" THEN "visit_unit" ELSE "visit_none"

\* the consumer's answers to the probe's offer (NoErr: Ok)
ProbeAnswers(cb) ==
    IF cb = "visit_unit" THEN {NoErr} \cup ConsumerErrs
    ELSE {NoErr, syntax_error}

\* missing_field returning the probe's result as it is
MissingFieldAsProbe(field_name, probe) ==
    IF probe = NoErr THEN RetOk("missing_field")
    ELSE RetErr("missing_field", probe)

\* missing_field reading every failure of the probe as an absent field
MissingFieldAnyFailure(field_name, probe) ==
    IF probe = NoErr THEN RetOk("missing_field")
    ELSE RetErr("missing_field",
                Err("ExpectedField", None, OptOr(probe.field, Some(field_name))))

\* the match of MapVisitor::missing_field on the probe's result (NoErr: Ok)
MissingFieldResult(field_name, probe) ==
    IF probe.kind = "SyntaxError"
    THEN RetErr("missing_field",
                Err("ExpectedField", None, OptOr(probe.field, Some(field_name))))
    ELSE IF probe = NoErr THEN RetOk("missing_field")
    ELSE RetErr("missing_field", probe)

\* MapVisitor::missing_field
MissingField ==
    /\ status = "running"
    /\ Top.cur = "map"
    /\ Top.call = "none"
    /\ \E field_name \in FieldNames, entry \in {"visit", "visit_option"},
          probe \in {NoErr} \cup ConsumerErrs :
         /\ probe \in ProbeAnswers(UnitDeserializer(entry))
         /\ ret' = [MissingFieldResult(field_name, probe)
                   EXCEPT !.name = field_name, !.outs = <<probe>>,
                          !.cb = UnitDeserializer(entry), !.pre = Some(Top)]
    /\ UNCHANGED <<stack, status>>

----------------------------------------------------------------------------
(* The consumer's Deserialize::deserialize returns from the top Decoder *)

Return ==
    /\ status = "running"
    /\ Idle(Top)
    /\ \E e \in {NoErr} \cup ReturnErrs :
         IF Len(stack) = 1
         THEN /\ status' = "done"
              /\ ret' = IF e = NoErr THEN RetOk("decode") ELSE RetErr("decode", e)
              /\ UNCHANGED stack
         ELSE LET parent == stack[Len(stack) - 1]
                  rest == SubSeq(stack, 1, Len(stack) - 2)
                  r == IF parent.call = "seq_visit"
                       THEN SeqVisitResume(parent, Top, e)
                       ELSE MapValueResume(parent, Top, e)
              IN /\ stack' = Append(rest, r.f)
                 /\ ret' = r.ret
                 /\ status' = IF r.panic THEN "panic" ELSE status

----------------------------------------------------------------------------

Init ==
    /\ \E v \in Roots : stack = <<NewDecoder(v)>>
    /\ ret = BaseRet
    /\ status = "running"

Next ==
    \/ DecoderVisit
    \/ DecoderVisitOption
    \/ DecoderVisitSeq
    \/ CursorReturn
    \/ SeqVisit
    \/ SeqEnd
    \/ SeqSizeHint
    \/ VisitKey
    \/ VisitValue
    \/ MapEnd
    \/ MissingField
    \/ Return

Spec == Init /\ [][Next]_vars

----------------------------------------------------------------------------
(* Properties *)

\* the array a sequence cursor traverses, the table a map cursor traverses
SrcArr(f) == Unwrap(f.src).arr

SrcTab(f) == Unwrap(f.src).tab

\* the entries of the residual Table in a slot (none when the slot is empty)
SlotTab(slot) == IF IsSome(slot) THEN Unwrap(slot).tab ELSE <<>>

\* C1: after K next_element calls on an Array of length N, each of which
\* returned an element, finish fails with EndOfStream when K < N and
\* succeeds when K = N.
C1_FinishAfterK ==
    (ret.op = "seq_end" /\ Top.clean) =>
        /\ Top.nOk <= Len(SrcArr(Top))
        /\ Top.nOk < Len(SrcArr(Top)) =>
              ~ret.ok /\ ret.err = end_of_stream_error
        /\ Top.nOk = Len(SrcArr(Top)) => ret.ok

\* C1 witness: finish after one of two elements fails
C1_Witness ==
    /\ ret.op = "seq_end"
    /\ Top.clean
    /\ Top.nOk = 1
    /\ Len(SrcArr(Top)) = 2
    /\ ~ret.ok

\* what is left of a table once the keys in the set S are taken out
Outside(t, S) == SelectSeq(t, LAMBDA e : e[1] \notin S)

\* the keys of the entries whose value next_value has converted
Delivered(f) == {f.deliv[i][1] : i \in 1..Len(f.deliv)}

\* next_key has just reported "no more keys" to a consumer that alternated
\* next_key and next_value, got no error and left no value partly consumed
MapTraversed ==
    /\ ret.op = "visit_key"
    /\ ret.ok
    /\ ~ret.some
    /\ Top.proto

\* C2 as stated: for every Table and every set S of its keys, a consumer
\* that recognises exactly S and fully consumes each matched value leaves
\* in the slot a residual Table of exactly the entries outside S.
C2_ResidualIsTable ==
    MapTraversed =>
        Top.toml = Some(TableV(Outside(SrcTab(Top), Delivered(Top))))

\* C2 amended: the slot holds the residual Table of exactly the entries
\* outside S, unchanged, when some key lies outside S, and is empty when S
\* holds every key of the Table.
C2_ResidualOutsideS ==
    MapTraversed =>
        LET rest == Outside(SrcTab(Top), Delivered(Top))
        IN Top.toml = IF rest = <<>> THEN None ELSE Some(TableV(rest))

\* C2 witness: one of two keys was recognised, the other is the residue
C2_Witness ==
    /\ MapTraversed
    /\ Len(SrcTab(Top)) = 2
    /\ Cardinality(Delivered(Top)) = 1
    /\ IsSome(Top.toml)

\* C3: when next_value converts the pending value of matched key k and the
\* nested conversion leaves residue r, the parent's residual Table maps k
\* to r afterwards; when it leaves none, the residual Table is as before.
C3_ResidueUnderSourceKey ==
    (ret.op = "visit_value" /\ ret.ok /\ status = "running") =>
        IF IsSome(ret.rsd)
        THEN Lookup(SlotTab(Top.toml), Unwrap(ret.key)) = ret.rsd
        ELSE Top.toml = Unwrap(ret.pre).toml

\* C4: whenever the conversion of a Table returns success, every entry of
\* the Table was delivered to the consumer or is in the residual Table
\* under its own key.
C4_NoEntryDropped ==
    (ret.op = "visit" /\ ret.ok /\ IsSome(ret.took)
        /\ Unwrap(ret.took).tag = "Table") =>
        \A i \in 1..Len(SrcTab(Top)) :
            \/ SrcTab(Top)[i][1] \in Delivered(Top)
            \/ SrcTab(Top)[i][1] \in EntryKeys(SlotTab(Top.toml))

\* C5: when the probe fails with SyntaxError, missing_field(name) fails with
\* ExpectedField whose field is name.
C5_ExpectedFieldNamed ==
    (ret.op = "missing_field" /\ ret.outs[1].kind = "SyntaxError") =>
        /\ ~ret.ok
        /\ ret.err = Err("ExpectedField", None, Some(ret.name))

\* C5 witness: an empty Table, the probe of a required field fails
C5_Witness ==
    /\ ret.op = "missing_field"
    /\ ret.outs[1] = syntax_error
    /\ ret.cb = "visit_unit"
    /\ SrcTab(Top) = <<>>
    /\ ret.err.field = Some(ret.name)

\* C6: every result of the probe other than a SyntaxError is returned by
\* missing_field as it is, and missing_field changes nothing of the cursor
\* (residue, pending key and value, entries left).
C6_OtherProbeResultsUnchanged ==
    (ret.op = "missing_field") =>
        /\ Top = Unwrap(ret.pre)
        /\ ret.outs[1].kind # "SyntaxError" =>
              /\ ret.ok <=> ret.outs[1] = NoErr
              /\ ret.err = ret.outs[1]

\* C6 witness: an empty Table, the probe of an optional field succeeds
C6_Witness ==
    /\ ret.op = "missing_field"
    /\ ret.outs[1] = NoErr
    /\ ret.cb = "visit_none"
    /\ ret.ok
    /\ SrcTab(Top) = <<>>

\* the number of entries next_key pulled whose key conversion answered
\* UnknownField before one answered otherwise
UnknownPrefix(outs) ==
    CHOOSE u \in 0..Len(outs) :
        /\ \A i \in 1..u : outs[i].kind = "UnknownField"
        /\ u < Len(outs) => outs[u + 1].kind # "UnknownField"

\* C7: in next_key, the value of every entry whose key conversion fails with
\* UnknownField goes into the residual Table under its own key and the loop
\* goes on; the first other result ends the call, a failure being returned
\* as it is, and no further entry is pulled.
C7_UnknownFieldRecovered ==
    (ret.op = "visit_key") =>
        LET pre == Unwrap(ret.pre)
            n == Len(pre.ents)
            u == UnknownPrefix(ret.outs)
        IN /\ status = "running"
           /\ \A i \in 1..u :
                Lookup(SlotTab(Top.toml), pre.ents[i][1]) = Some(pre.ents[i][2])
           /\ EntryKeys(SlotTab(Top.toml)) =
                EntryKeys(SlotTab(pre.toml)) \cup {pre.ents[i][1] : i \in 1..u}
           /\ IF u = n
              THEN ret.ok /\ ~ret.some /\ Top.ents = <<>>
              ELSE /\ Top.ents = SubSeq(pre.ents, u + 2, n)
                   /\ IF ret.outs[u + 1] = NoErr
                      THEN ret.ok /\ ret.some /\ ret.key = Some(pre.ents[u + 1][1])
                      ELSE ~ret.ok /\ ret.err = ret.outs[u + 1]

\* C7 witness: the first key is unrecognised, the second fails otherwise
C7_Witness ==
    /\ ret.op = "visit_key"
    /\ Len(Unwrap(ret.pre).ents) = 2
    /\ UnknownPrefix(ret.outs) = 1
    /\ ~ret.ok
    /\ ret.err.kind = "SyntaxError"
    /\ Len(SlotTab(Top.toml)) = 1

\* C8: MapVisitor's finish succeeds in every state of the cursor and changes
\* nothing of it, while SeqDeserializer's finish fails whenever the
\* remaining count is not zero.
C8_MapFinishSucceeds ==
    /\ ret.op = "map_end" => ret.ok /\ Top = Unwrap(ret.pre)
    /\ (ret.op = "seq_end" /\ Top.len # 0) => ~ret.ok

\* C8 witness: finish with a pending value never converted and residue
C8_Witness ==
    /\ ret.op = "map_end"
    /\ ret.ok
    /\ IsSome(Top.value)
    /\ IsSome(Top.toml)

\* C9: a consumer that accepts every key and fully consumes every value is
\* delivered exactly the entries of the Table, each once, and the slot is
\* left empty.
C9_OpenShapeRoundTrip ==
    (MapTraversed /\ ~Top.unk) =>
        /\ Top.deliv = SrcTab(Top)
        /\ Top.toml = None

\* C9 witness: a Table of two entries, both delivered
C9_Witness ==
    /\ MapTraversed
    /\ ~Top.unk
    /\ Len(SrcTab(Top)) = 2
    /\ Len(Top.deliv) = 2

\* C10: a dispatch moves the Value out of the slot: in every Decoder that
\* has dispatched, the slot is empty unless the cursor of that dispatch
\* deposited residue, and a dispatch on an empty slot fails with
\* EndOfStream.
C10_SlotTakenOnDispatch ==
    /\ \A i \in 1..Len(stack) :
          (IsSome(stack[i].src) /\ IsSome(stack[i].toml)) =>
              /\ stack[i].dep
              /\ Unwrap(stack[i].toml).tag = Unwrap(stack[i].src).tag
    /\ (ret.op = "visit" /\ IsNone(ret.took)) =>
          ~ret.ok /\ ret.err = end_of_stream_error

\* C10 witness: a second dispatch after a primitive was consumed
C10_Witness ==
    /\ ret.op = "visit"
    /\ IsNone(ret.took)
    /\ IsSome(Top.src)
    /\ Unwrap(Top.src).tag \in PrimTags
    /\ ret.err = end_of_stream_error

\* the DecodeError that section 4.5 gives for a consumer signal s, for a
\* dispatch with type tag ty
Mapped(s, ty) ==
    CASE s.sig = "SyntaxError" -> Err("SyntaxError", None, None)
      [] s.sig = "EndOfStreamError" -> Err("EndOfStream", None, None)
      [] s.sig = "MissingFieldError" -> Err("ExpectedField", Some(ty), Some(s.name))
      [] s.sig = "UnknownFieldError" -> Err("UnknownField", None, Some(s.name))

\* the request just made found a Value in the slot and dispatched it on its
\* tag: the Value is moved out, an Array gets a sequence cursor over its
\* elements, a Table a map cursor over its entries, a primitive is offered
RequestDispatched ==
    LET v == Unwrap(Unwrap(ret.pre).toml)
    IN /\ ret.took = Some(v)
       /\ Top.toml = None
       /\ v.tag = "Array" =>
             Top.cur = "seq" /\ Top.iter = v.arr /\ Top.len = Len(v.arr)
       /\ v.tag = "Table" => Top.cur = "map" /\ Top.ents = v.tab
       /\ v.tag \in PrimTags =>
             Top.cur = "none" /\ ret.op = "visit" /\ (ret.ok <=> ret.sig = OkSig)

\* a request for sequence shape has just found the slot empty
EmptySeqRequest == ret.req = "visit_seq" /\ IsNone(Unwrap(ret.pre).toml)

\* the option request tells "no value" exactly on an empty slot, and
\* "a value follows" leaves the Value in the slot
OptionRequestTellsSlot ==
    ret.req = "visit_option" =>
        /\ ret.op = "visit_none" <=> IsNone(Unwrap(ret.pre).toml)
        /\ ret.op = "visit_some" <=> IsSome(Unwrap(ret.pre).toml)
        /\ Top = Unwrap(ret.pre)

\* C11 as stated: a request for sequence shape on an empty slot offers a
\* sequence of length zero and does not fail with EndOfStream; on a full
\* slot it is the ordinary dispatch; the option request tells "no value"
\* exactly on an empty slot and otherwise leaves the Value in the slot.
C11_EmptySeqNeverEndOfStream ==
    /\ EmptySeqRequest =>
          /\ ret.op = "visit_empty_seq"
          /\ ret.lo = 0 /\ ret.hi = Some(0)
          /\ ret.err.kind # "EndOfStream"
    /\ (ret.req \in {"visit", "visit_seq"} /\ IsSome(Unwrap(ret.pre).toml)) =>
          RequestDispatched
    /\ OptionRequestTellsSlot

\* C11 amended: on an empty slot the sequence request offers a sequence of
\* length zero and returns the consumer's own answer to it, mapped with the
\* tag "array": it fails with EndOfStream only when the consumer answers
\* the empty sequence with stream-exhausted.  The rest as stated.
C11_EmptySeqOffered ==
    /\ EmptySeqRequest =>
          /\ ret.op = "visit_empty_seq"
          /\ ret.lo = 0 /\ ret.hi = Some(0)
          /\ Top = Unwrap(ret.pre)
          /\ ret.ok <=> ret.sig = OkSig
          /\ ~ret.ok => ret.err = Mapped(ret.sig, "array")
          /\ ret.err.kind = "EndOfStream" => ret.sig.sig = "EndOfStreamError"
    /\ (ret.req \in {"visit", "visit_seq"} /\ IsSome(Unwrap(ret.pre).toml)) =>
          RequestDispatched
    /\ OptionRequestTellsSlot

\* C11 witness: the empty sequence is offered on an empty slot and accepted
C11_Witness ==
    /\ EmptySeqRequest
    /\ ret.op = "visit_empty_seq"
    /\ ret.ok
    /\ ret.lo = 0

\* the next_value call that just returned found no pending value
NoPendingValue == ret.op = "visit_value" /\ IsNone(Unwrap(ret.pre).value)

\* the values of frame f that next_value has handed out or is converting
ValuesHandedOut(f) ==
    Len(f.deliv) + (IF f.call = "map_value" THEN 1 ELSE 0)

\* C12: next_value with no pending value fails with EndOfStream and leaves
\* the accumulator (and the rest of the cursor) as it was; every next_value
\* leaves no pending value behind, and a map cursor never hands out more
\* values than next_key returned keys.
C12_NextValueNeedsPending ==
    /\ NoPendingValue =>
          /\ ~ret.ok
          /\ ret.err = end_of_stream_error
          /\ Top.toml = Unwrap(ret.pre).toml
          /\ Top.ents = Unwrap(ret.pre).ents
          /\ Top.key = Unwrap(ret.pre).key
          /\ IsNone(Top.value)
    /\ (ret.op = "visit_value" /\ status = "running") => IsNone(Top.value)
    /\ (ret.op = "visit_value" /\ ret.ok) => IsSome(Unwrap(ret.pre).value)
    /\ \A i \in 1..Len(stack) :
          stack[i].cur = "map" =>
             ValuesHandedOut(stack[i]) + (IF IsSome(stack[i].value) THEN 1 ELSE 0)
                <= stack[i].nKey

\* C12 witness: a second next_value after one successful next_key and one
\* successful next_value fails with EndOfStream
C12_Witness ==
    /\ NoPendingValue
    /\ ret.err = end_of_stream_error
    /\ Top.nKey = 1
    /\ Len(Top.deliv) = 1

\* the next_value call that just returned was converting the value of a
\* matched key and the nested conversion failed; ret.outs[1] is the nested
\* error
NestedValueFailed ==
    ret.op = "visit_value" /\ ~ret.ok /\ IsSome(Unwrap(ret.pre).value)

\* C13: when the nested conversion run by next_value for matched key k
\* fails with an error whose field is unset, the error that next_value
\* returns has its field set to k.
C13_FieldFilledWithKey ==
    (NestedValueFailed /\ IsNone(ret.outs[1].field)) =>
        ret.err.field = Unwrap(ret.pre).vkey

\* the result of the key conversion that made visit_key fail
FailedKeyOutcome ==
    LET i == CHOOSE j \in 1..Len(ret.outs) :
                 /\ KeyArm(ret.outs[j]) = "fail"
                 /\ \A h \in 1..(j - 1) : KeyArm(ret.outs[h]) = "putback"
    IN ret.outs[i]

\* C14: an error that already names a field keeps it through next_element,
\* next_key, next_value and the return of a Decoder dispatch; missing_field
\* turns the probe's SyntaxError into ExpectedField with the probe error's
\* field when it is set and the requested name when it is not.
C14_FieldNeverOverwritten ==
    /\ (ret.op \in {"seq_visit", "visit_value"} /\ ~ret.ok /\ ret.outs # <<>>) =>
          /\ IsSome(ret.outs[1].field) => ret.err.field = ret.outs[1].field
          /\ ret.err.kind = ret.outs[1].kind
    /\ (ret.op = "visit_key" /\ ~ret.ok) =>
          /\ IsSome(FailedKeyOutcome.field) => ret.err.field = FailedKeyOutcome.field
          /\ ret.err.kind = FailedKeyOutcome.kind
    /\ (ret.op = "visit" /\ ret.req = "" /\ ~ret.ok) =>
          /\ IsSome(ret.outs[1].field) => ret.err.field = ret.outs[1].field
          /\ ret.err.kind = ret.outs[1].kind
    /\ (ret.op = "missing_field" /\ ret.outs[1].kind = "SyntaxError") =>
          ret.err.field = IF IsSome(ret.outs[1].field) THEN ret.outs[1].field
                          ELSE Some(ret.name)

\* C14 witness: next_value for matched key "b" returns a nested error that
\* names the field "a", and the field is still "a"
C14_Witness ==
    /\ NestedValueFailed
    /\ Unwrap(ret.pre).vkey = Some(KeyNames[2])
    /\ ret.outs[1].field = Some(KeyNames[1])
    /\ ret.err.field = Some(KeyNames[1])

Fatal(e) == e.kind \in {"SyntaxError", "EndOfStream"}

\* the next_key call that just returned pulled an entry whose key conversion
\* failed with SyntaxError or EndOfStream (the entry after the UnknownField
\* answers)
KeyConversionFatal ==
    /\ ret.op = "visit_key"
    /\ UnknownPrefix(ret.outs) < Len(ret.outs)
    /\ Fatal(ret.outs[UnknownPrefix(ret.outs) + 1])

\* C15: a nested conversion that fails with SyntaxError or EndOfStream in
\* next_element or next_value leaves the accumulator as it was and its error
\* is the call's result; a key conversion that fails so in next_key makes
\* next_key fail with that error, and the entry of that key is not in the
\* residual Table.
C15_FatalErrorsCollectNothing ==
    /\ (ret.op \in {"seq_visit", "visit_value"} /\ ret.outs # <<>>
          /\ Fatal(ret.outs[1])) =>
          /\ ~ret.ok
          /\ ret.err = ret.outs[1]
          /\ Top.toml = Unwrap(ret.pre).toml
    /\ (KeyConversionFatal /\ status = "running") =>
          LET u == UnknownPrefix(ret.outs)
              pre == Unwrap(ret.pre)
          IN /\ ~ret.ok
             /\ ret.err = ret.outs[u + 1]
             /\ pre.ents[u + 1][1] \notin EntryKeys(SlotTab(Top.toml))
             /\ EntryKeys(SlotTab(Top.toml)) =
                   EntryKeys(SlotTab(pre.toml))
                      \cup {pre.ents[i][1] : i \in 1..u}

\* C15 witness: next_key diverts one unknown entry and then fails with
\* SyntaxError on the next one
C15_Witness ==
    /\ KeyConversionFatal
    /\ UnknownPrefix(ret.outs) = 1
    /\ ret.err = syntax_error
    /\ Len(SlotTab(Top.toml)) = 1

\* the tag the specification gives for each primitive kind of Value
ArmTags ==
    {<<"String", "string">>, <<"Integer", "integer">>, <<"Float", "float">>,
     <<"Boolean", "bool">>, <<"Datetime", "date">>}

\* a primitive has just been offered to the consumer by Decoder dispatch
PrimitiveOffered ==
    /\ ret.op = "visit"
    /\ ret.req \in {"visit", "visit_seq"}
    /\ IsSome(ret.took)
    /\ Unwrap(ret.took).tag \in PrimTags

\* C16: the error of a primitive arm is a function of the consumer's signal
\* and the arm: syntax-shape failure gives SyntaxError and stream-exhausted
\* gives EndOfStream, both with no field; named-field-missing(name) gives
\* ExpectedField with the arm's type tag and field = name;
\* named-field-unexpected(name) gives UnknownField with field = name.
C16_ErrorMapperTotal ==
    PrimitiveOffered =>
        /\ ret.ok <=> ret.sig = OkSig
        /\ ret.sig \in Answers
        /\ ~ret.ok =>
              \E p \in ArmTags :
                 /\ p[1] = Unwrap(ret.took).tag
                 /\ ret.err = Mapped(ret.sig, p[2])
                 /\ ret.err.kind \in ErrorKinds

\* C16 witness: a Datetime answered with named-field-missing gives
\* ExpectedField with the tag "date"
C16_Witness ==
    /\ PrimitiveOffered
    /\ Unwrap(ret.took).tag = "Datetime"
    /\ ret.sig.sig = "MissingFieldError"
    /\ ret.err = Err("ExpectedField", Some("date"), Some(ret.sig.name))

\* the remaining count of sequence frame f is the number of elements of its
\* Array that have not been pulled
CountIsUnpulled(f) ==
    /\ f.len = Len(SrcArr(f)) - f.nPull
    /\ f.len = Len(f.iter)
    /\ f.len >= 0
    /\ f.nPull <= Len(SrcArr(f))

\* C17: in every sequence cursor over an Array of length N the remaining
\* count is N minus the number of next_element calls that pulled an element
\* (whatever became of the nested conversion) and is never negative;
\* next_element reports "no element" exactly at zero and changes nothing;
\* size_hint reports the count as lower and upper bound.
C17_RemainingCount ==
    /\ \A i \in 1..Len(stack) :
          stack[i].cur = "seq" => CountIsUnpulled(stack[i])
    /\ (ret.op = "seq_visit" /\ ret.ok /\ ~ret.some) =>
          /\ Top.len = 0
          /\ Top = Unwrap(ret.pre)
    /\ (ret.op = "seq_visit" /\ (ret.some \/ ~ret.ok)) =>
          /\ Top.nPull >= 1
          /\ Top.len < Len(SrcArr(Top))
    /\ ret.op = "size_hint" =>
          /\ ret.lo = Top.len
          /\ ret.hi = Some(Top.len)
          /\ ret.lo = Len(SrcArr(Top)) - Top.nPull

\* C17 witness: the first element of a two-element Array was pulled and its
\* nested conversion failed; one element remains
C17_Witness ==
    /\ ret.op = "seq_visit"
    /\ ~ret.ok
    /\ Len(SrcArr(Top)) = 2
    /\ Top.nPull = 1
    /\ Top.len = 1

\* the elements of the residual Array in a slot (none when the slot is empty)
SlotArr(slot) == IF IsSome(slot) THEN Unwrap(slot).arr ELSE <<>>

\* the accumulator of sequence frame f is empty when no element left
\* residue, and else the Array of the residues in element order
AccumulatorIsResidues(f) ==
    f.toml = IF f.rsds = <<>> THEN None ELSE Some(ArrayV(f.rsds))

\* C18: during a sequence traversal the accumulator is empty or an Array
\* holding, in element order, exactly the residues of the elements whose
\* nested conversion left one; put_value_back never meets anything else in
\* the slot.
C18_ResidualArrayInOrder ==
    /\ \A i \in 1..Len(stack) :
          stack[i].cur = "seq" => AccumulatorIsResidues(stack[i])
    /\ (ret.op = "seq_visit" /\ ret.some) =>
          /\ IsSome(ret.rsd) =>
                /\ Top.toml # None
                /\ Unwrap(Top.toml).tag = "Array"
                /\ Unwrap(Top.toml).arr =
                      Append(SlotArr(Unwrap(ret.pre).toml), Unwrap(ret.rsd))
          /\ IsNone(ret.rsd) => Top.toml = Unwrap(ret.pre).toml

\* C18 witness: two elements left different residues and the residual
\* Array holds both in element order
C18_Witness ==
    /\ ret.op = "seq_visit"
    /\ Top.cur = "seq"
    /\ Len(Top.rsds) = 2
    /\ Top.rsds[1] # Top.rsds[2]
    /\ Top.toml = Some(ArrayV(<<SrcArr(Top)[1], SrcArr(Top)[2]>>))

\* the keys of a list of entries, in order
KeySeq(t) == [i \in 1..Len(t) |-> t[i][1]]

\* the next_key call that just returned met only unrecognised keys (or no
\* entry at all)
AllRemainingUnknown ==
    /\ ret.op = "visit_key"
    /\ \A i \in 1..Len(ret.outs) : ret.outs[i].kind = "UnknownField"

\* C19: over the lifetime of a map cursor every entry of the Table is pulled
\* at most once and in order, so one next_key call pulls no more entries
\* than remain; when every remaining key is unrecognised next_key reports
\* "no more keys" with all of them in the residue and the iterator empty,
\* and next_key on an empty iterator reports "no more keys" again and leaves
\* the residue as it is.
C19_NextKeyPullsOnce ==
    /\ \A i \in 1..Len(stack) :
          stack[i].cur = "map" =>
             stack[i].pulled \o KeySeq(stack[i].ents) = KeySeq(SrcTab(stack[i]))
    /\ (AllRemainingUnknown /\ status = "running") =>
          LET pre == Unwrap(ret.pre)
          IN /\ ret.ok /\ ~ret.some
             /\ Top.ents = <<>>
             /\ Len(Top.pulled) = Len(pre.pulled) + Len(pre.ents)
             /\ EntryKeys(pre.ents) \subseteq EntryKeys(SlotTab(Top.toml))
             /\ pre.ents = <<>> => Top.toml = pre.toml

\* C19 witness: next_key diverted both entries of a Table and reported "no
\* more keys", and a later next_key reports it again with the residue as it
\* was
C19_Witness ==
    /\ AllRemainingUnknown
    /\ ret.ok /\ ~ret.some
    /\ Unwrap(ret.pre).ents = <<>>
    /\ Len(Top.pulled) = 2
    /\ Len(SlotTab(Top.toml)) = 2
    /\ Top.toml = Unwrap(ret.pre).toml

\* C20: for every sequence of next_key and next_value calls put_value_back
\* never panics: while a value is pending (stashed, or being converted by
\* next_value) the key slot holds the key of that same entry, and the
\* accumulator of a map cursor is empty or a Table.
C20_PutValueBackNeverPanics ==
    /\ status # "panic"
    /\ \A i \in 1..Len(stack) :
          stack[i].cur = "map" =>
             /\ (IsSome(stack[i].value) \/ stack[i].call = "map_value") =>
                   stack[i].key = stack[i].vkey
             /\ IsSome(stack[i].toml) => Unwrap(stack[i].toml).tag = "Table"

====
